---------------------------- MODULE Spec2Model ----------------------------
(***************************************************************************)
(* Model of the incremental fee scanner hub_fee_monitor_v41.py: main() as  *)
(* a step machine over the two files it owns (STATE_FILE, OUTFILE), and    *)
(* http_get_any / request_with_retries as a step machine of their own.     *)
(*                                                                         *)
(* Modelling conventions                                                   *)
(*  - Calendar dates are day numbers, heights are positive integers.       *)
(*  - The chain is immutable: Block(h) is a fixed function of the height.  *)
(*  - The float ratios a / b * 100.0 are kept as exact reduced fractions   *)
(*    <<numerator, denominator>>.                                          *)
(*  - Python None for hashes is NoHashes, for last_ok it is 0.             *)
(*  - In Spec the outcome of one http_get_any call is one nondeterministic *)
(*    choice (answer / RuntimeError); SpecHttp unfolds the call itself.    *)
(***************************************************************************)
EXTENDS Integers, Sequences, FiniteSets, TLC

\* ------------------------------------------------------------------ bounds
\* Highest height the chain can report as latest_block_height.
MaxHeight == 4
\* Number of invocations of main() explored.
MaxRuns == 3
\* BLOCK_BATCH of the program is 60; the model scans with a scaled-down batch.
BLOCK_BATCH == 2
\* Prices the price feed may answer.
MaxPrice == 2
\* Length of the endpoint list handed to http_get_any (LCDS has 3, RPCS 4).
NumEndpoints == 3
\* Number of http_get_any calls explored one after the other.
MaxCalls == 2
\* Longest fractional-second part of the timestamps handed to normalize_iso.
MaxFrac == 7

\* ------------------------------------------------------- program constants
MAX_RETRIES == 3
\* BACKOFF = 0.8 seconds, in tenths of a second.
BACKOFF == 8

Heights == 1..MaxHeight
Prices == 1..MaxPrice

\* ------------------------------------------------------------- chain data
\* Message type tags, as texts (sequences of characters).
IbcTransfer == <<"/", "i", "b", "c", ".", "t">>
IbcAck      == <<"/", "i", "b", "c", ".", "a">>
IbcLike     == <<"/", "i", "b", "c", "x", ".">>
BankSend    == <<"/", "c", "o", "s", ".", "s">>
\* A message without "@type".
Untyped     == << >>

\* Three shapes of block, repeating with the height: two transactions (the
\* first with two cross-chain messages, the second paying a second coin), an
\* empty block, one zero-fee transaction whose second message is cross-chain.
\* fee is the uatom fee, other says the fee also holds a coin of another denom.
BlockTxs(h) ==
    CASE h % 3 = 1 -> << [fee |-> 500, other |-> FALSE, types |-> <<IbcTransfer, IbcAck>>],
                         [fee |-> 300, other |-> TRUE,  types |-> <<BankSend, IbcLike>>] >>
      [] h % 3 = 2 -> << >>
      [] OTHER     -> << [fee |-> 0, other |-> FALSE, types |-> <<Untyped, IbcTransfer>>] >>

\* Two consecutive heights share a calendar date.
BlockDate(h) == (h + 1) \div 2

Dates == { BlockDate(h) : h \in 1..(MaxHeight + 1) }

\* What /block?height=h answers: header date and the transactions.
Block(h) == [date |-> BlockDate(h), txs |-> BlockTxs(h)]

\* ------------------------------------------------------------ pure helpers
Max(a, b) == IF a >= b THEN a ELSE b
Min(a, b) == IF a <= b THEN a ELSE b

RECURSIVE Gcd(_, _)
Gcd(a, b) == IF b = 0 THEN a ELSE Gcd(b, a % b)

\* A fraction in lowest terms; 0 is <<0, 1>>.
Norm(n, d) == IF n = 0 THEN <<0, 1>> ELSE <<n \div Gcd(n, d), d \div Gcd(n, d)>>

\* (a / b * 100.0) if b else 0.0
Pct(a, b) == IF b = 0 THEN <<0, 1>> ELSE Norm(a * 100, b)

\* Float addition, as groupby(...).sum() applies it to the ratio columns.
RatAdd(p, q) == Norm(p[1] * q[2] + q[1] * p[2], p[2] * q[2])

\* tm_tx_hash_from_b64 over the block's transactions: the hash of the i-th
\* transaction of height h is the pair <<h, i>> (distinct bytes, distinct hash).
HashesOf(h) == [i \in 1..Len(Block(h).txs) |-> <<h, i>>]

\* hashes = None
NoHashes == << <<0, 0>> >>

\* ------------------------------------------------------------ JSON texts
DigitChars == <<"0", "1", "2", "3", "4", "5", "6", "7", "8", "9">>

RECURSIVE Digits(_)
\* The decimal text of n >= 0, as the LCD writes an amount.
Digits(n) ==
    IF n < 10 THEN <<DigitChars[n + 1]>>
    ELSE Append(Digits(n \div 10), DigitChars[(n % 10) + 1])

\* int(text) succeeds: a non-empty run of decimal digits.
IsIntText(text) ==
    /\ text # << >>
    /\ \A i \in 1..Len(text) : \E v \in 1..10 : DigitChars[v] = text[i]

DigitValue(c) == (CHOOSE v \in 1..10 : DigitChars[v] = c) - 1

RECURSIVE ParseInt(_)
\* int(text) for a text of decimal digits.
ParseInt(text) ==
    IF text = << >> THEN 0
    ELSE 10 * ParseInt(SubSeq(text, 1, Len(text) - 1)) + DigitValue(text[Len(text)])

\* d.get(key, default)
Get(d, key, default) == IF key \in DOMAIN d THEN d[key] ELSE default

\* d.get(key, {}) or {} -- and the same with [] : the empty value is << >>.
GetOrEmpty(d, key) == Get(d, key, << >>)

\* t.startswith(prefix)
StartsWith(t, prefix) ==
    /\ Len(t) >= Len(prefix)
    /\ SubSeq(t, 1, Len(prefix)) = prefix

\* "/ibc."
IbcPrefix == <<"/", "i", "b", "c", ".">>

\* One message of tx.body.messages with the given type tag.
Message(tag) ==
    IF tag = Untyped THEN [x \in {"sender"} |-> <<"a">>]
    ELSE [x \in {"@type"} |-> tag]

\* fee.amount of the detail of a transaction.
Coins(t) ==
    (IF t.fee > 0 THEN <<[denom |-> "uatom", amount |-> Digits(t.fee)]>> ELSE << >>)
    \o (IF t.other THEN <<[denom |-> "ibc/27", amount |-> Digits(7)]>> ELSE << >>)

\* The JSON the LCD answers for the detail of transaction t.
DetailOf(t) ==
    [tx |-> [auth_info |-> [fee |-> [amount |-> Coins(t)]],
             body |-> [messages |-> [i \in 1..Len(t.types) |-> Message(t.types[i])]]]]

\* The transaction detail the LCD answers for a hash.
LcdTx(hash) == DetailOf(Block(hash[1]).txs[hash[2]])

\* -------------------------------------------------------------- timestamps
IsDigit(c) == \E v \in 1..10 : DigitChars[v] = c

\* "+00:00"
UtcOffset == <<"+", "0", "0", ":", "0", "0">>

RECURSIVE ReplaceZ(_)
\* ts.replace("Z", "+00:00"): every Z of the text.
ReplaceZ(ts) ==
    IF ts = << >> THEN << >>
    ELSE (IF Head(ts) = "Z" THEN UtcOffset ELSE <<Head(ts)>>) \o ReplaceZ(Tail(ts))

\* [+-]\d\d:\d\d
IsOffset(t) ==
    /\ Len(t) = 6
    /\ t[1] \in {"+", "-"}
    /\ IsDigit(t[2]) /\ IsDigit(t[3])
    /\ t[4] = ":"
    /\ IsDigit(t[5]) /\ IsDigit(t[6])

\* Positions of a dot that is followed by digits only, one at least, up to
\* the offset that ends the text: where ^(.*\.(\d+))([+-]\d\d:\d\d)$ matches.
FracDots(ts) ==
    IF Len(ts) < 8 \/ ~IsOffset(SubSeq(ts, Len(ts) - 5, Len(ts))) THEN {}
    ELSE {p \in 1..(Len(ts) - 7) :
            /\ ts[p] = "."
            /\ \A j \in (p + 1)..(Len(ts) - 6) : IsDigit(ts[j])}

\* ts.split(".")[0]: the text before its first dot.
BeforeFirstDot(ts) ==
    IF \E p \in 1..Len(ts) : ts[p] = "."
    THEN SubSeq(ts, 1, (CHOOSE p \in 1..Len(ts) :
                          ts[p] = "." /\ \A q \in 1..(p - 1) : ts[q] # ".") - 1)
    ELSE ts

\* Variant: the fraction is cut at 6 digits but not padded.
Frac6_noPad(frac) == SubSeq(frac, 1, IF Len(frac) < 6 THEN Len(frac) ELSE 6)

\* (frac + "000000")[:6]
Frac6(frac) == SubSeq(frac \o <<"0", "0", "0", "0", "0", "0">>, 1, 6)

\* normalize_iso on a text (a value that is not a text is returned as it is).
normalize_iso(ts) ==
    IF ts = << >> THEN ts
    ELSE LET t == ReplaceZ(ts)
         IN IF FracDots(t) = {} THEN t
            ELSE LET p == CHOOSE q \in FracDots(t) : TRUE
                     frac == SubSeq(t, p + 1, Len(t) - 6)
                     tz == SubSeq(t, Len(t) - 5, Len(t))
                 IN BeforeFirstDot(t) \o <<".">> \o Frac6(frac) \o tz

\* Texts of at most n of the digits 0 and 1.
FracTexts(n) == UNION {[1..m -> {"0", "1"}] : m \in 0..n}

\* What follows the seconds in a timestamp: Z, an offset, or nothing.
IsoSuffixes == {<<"Z">>, UtcOffset, <<"-", "0", "5", ":", "3", "0">>, << >>}

\* The part up to the seconds, cut short: a date-time, and a text that has
\* a dot of its own.
IsoBases == {<<"T", "0", "7">>, <<"T", ".", "7">>}

\* The timestamps handed to normalize_iso: with and without a fraction, with
\* and without a zone, and the empty text.
IsoInputs ==
    {<< >>}
    \cup {b \o suf : b \in IsoBases, suf \in IsoSuffixes}
    \cup {b \o <<".">> \o f \o suf :
            b \in IsoBases, f \in FracTexts(MaxFrac), suf \in IsoSuffixes}

\* Shapes of a detail the LCD answers with status 200 but without a usable
\* fee: no auth_info at all, or a uatom coin whose amount is not an integer.
MalformedShapes == {"no_fee", "bad_amount"}

Malformed(lcd_tx, shape) ==
    IF shape = "no_fee" THEN [tx |-> [body |-> lcd_tx.tx.body]]
    ELSE [tx |-> [auth_info |->
                    [fee |-> [amount |->
                        <<[denom |-> "uatom", amount |-> <<"5", "x">>]>>]],
                  body |-> lcd_tx.tx.body]]

RECURSIVE SumUatom_anyDenom(_)
\* Variant: the denom is not looked at, every coin of the fee is summed.
SumUatom_anyDenom(amounts) ==
    IF amounts = << >> THEN 0
    ELSE LET amt == Get(Head(amounts), "amount", <<"0">>)
         IN (IF IsIntText(amt) THEN ParseInt(amt) ELSE 0)
            + SumUatom_anyDenom(Tail(amounts))

RECURSIVE SumUatom(_)
\* The loop of fee_uatom_from_lcd_tx: uatom coins are summed, an amount that
\* int() rejects is passed over (except Exception: pass).
SumUatom(amounts) ==
    IF amounts = << >> THEN 0
    ELSE LET a == Head(amounts)
             amt == Get(a, "amount", <<"0">>)
         IN (IF Get(a, "denom", "") = "uatom" /\ IsIntText(amt)
             THEN ParseInt(amt) ELSE 0)
            + SumUatom(Tail(amounts))

fee_uatom_from_lcd_tx(lcd_tx) ==
    LET tx == GetOrEmpty(lcd_tx, "tx")
        auth == GetOrEmpty(tx, "auth_info")
        fee == GetOrEmpty(auth, "fee")
        amounts == GetOrEmpty(fee, "amount")
    IN SumUatom(amounts)

body_from_lcd_tx(lcd_tx) == GetOrEmpty(GetOrEmpty(lcd_tx, "tx"), "body")

RECURSIVE AnyIbc(_)
\* The loop of is_ibc_tx: True at the first message whose tag has the prefix.
AnyIbc(msgs) ==
    IF msgs = << >> THEN FALSE
    ELSE IF StartsWith(Get(Head(msgs), "@type", << >>), IbcPrefix) THEN TRUE
    ELSE AnyIbc(Tail(msgs))

is_ibc_tx(tx_body) == AnyIbc(GetOrEmpty(tx_body, "messages"))

\* ------------------------------------------------------------------- state
VARIABLES
    state_file,   \* STATE_FILE: [kind, last_height]; kind is missing, ok
                  \* ({"last_height": n}), unparseable (not JSON), no_key
                  \* (a dict without "last_height", {} included), null
                  \* ({"last_height": null}), text ({"last_height": "abc"}),
                  \* not_dict (a non-empty JSON list)
    outfile,      \* OUTFILE: [exists, rows (date -> row), atom_price_usd_used]
    pc,           \* position of main(): idle, price, block, txs, merge
    runs,         \* invocations of main() so far
    latest, start, end, height,   \* locals of main()
    atom_price,
    by_date,      \* date -> Daily Bucket
    hashes, k,    \* hashes of the block in progress, index of the next one
    last_ok,
    \* history of the run in progress or last finished
    wm_before,    \* state_file when the run started
    out_before,   \* outfile when the run started
    blk_reqs,     \* heights requested with rpc_block, in order
    tx_reqs,      \* hashes requested with lcd_get_tx_by_hash, in order
    fail,         \* the fetch failure that stopped the scan, if any
    bad,          \* the first malformed answer the run received, if any
    ended,        \* how the last run ended: none, written, aborted, crashed
    save_count,   \* height -> number of save_state(height) calls, all runs
    \* http_get_any
    h_pc, h_base, h_i, h_last_err, h_errors, h_result, h_log, h_calls,
    h_prev,       \* how the call before the one in progress ended
    \* normalize_iso
    iso_pc,       \* idle, in, out, done
    iso_in,       \* the timestamp handed to normalize_iso
    iso_out,      \* normalize_iso(iso_in)
    iso_again     \* normalize_iso(iso_out)

run_vars == <<state_file, outfile, pc, runs, latest, start, end, height,
              atom_price, by_date, hashes, k, last_ok, wm_before, out_before,
              blk_reqs, tx_reqs, fail, bad, ended, save_count>>

http_vars == <<h_pc, h_base, h_i, h_last_err, h_errors, h_result, h_log,
               h_calls, h_prev>>

iso_vars == <<iso_pc, iso_in, iso_out, iso_again>>

vars == <<run_vars, http_vars, iso_vars>>

NoFail == [kind |-> "none", h |-> 0, k |-> 0]

MissingState == [kind |-> "missing", last_height |-> 0]

MissingOut == [exists |-> FALSE, rows |-> << >>, atom_price_usd_used |-> 0]

EmptyBucket ==
    [tx_total |-> 0, tx_ibc |-> 0, total_fee_uatom |-> 0, ibc_fee_uatom |-> 0,
     lcd_errors |-> 0]

\* ------------------------------------------------------------ state store
\* load_state(): None when the file does not exist or json.load raises,
\* else whatever JSON value the file holds.
load_state(f) == IF f.kind \in {"missing", "unparseable"} THEN MissingState ELSE f

\* state.get raises AttributeError on a list; int(state["last_height"])
\* raises ValueError on a text that is not a number.
StateRaises(st) == st.kind \in {"not_dict", "text"}

\* Variant: the stored watermark is never taken into account.
HasWatermark_never(st) == FALSE

\* state and state.get("last_height") is not None, with a usable integer
HasWatermark(st) == st.kind = "ok"

save_state(h) == [kind |-> "ok", last_height |-> h]

\* Variant: resumes at the watermark itself instead of the height after it.
ScanStart_rescan(st, L) ==
    IF HasWatermark(st) THEN st.last_height ELSE Max(1, L - BLOCK_BATCH)

\* Variant: the end bound is not capped by the latest height.
ScanEnd_noMin(L, s) == s + BLOCK_BATCH

\* ------------------------------------------------------------- scan range
ScanStart(st, L) ==
    IF HasWatermark(st) THEN st.last_height + 1 ELSE Max(1, L - BLOCK_BATCH)

ScanEnd(L, s) == Min(L, s + BLOCK_BATCH)

HttpIdle ==
    /\ h_pc = "idle" /\ h_base = 1 /\ h_i = 1 /\ h_last_err = "none"
    /\ h_errors = << >> /\ h_result = [kind |-> "none", base |-> 0]
    /\ h_log = << >> /\ h_calls = 0
    /\ h_prev = [kind |-> "none", base |-> 0]

\* No timestamp is being normalized.
IsoIdle ==
    /\ iso_pc = "idle" /\ iso_in = << >> /\ iso_out = << >> /\ iso_again = << >>

\* Everything but the state file, before the first run.
InitRest ==
    /\ outfile = MissingOut
    /\ pc = "idle"
    /\ runs = 0
    /\ latest = 0 /\ start = 0 /\ end = 0 /\ height = 0
    /\ atom_price = 0
    /\ by_date = << >>
    /\ hashes = << >> /\ k = 0
    /\ last_ok = 0
    /\ wm_before = MissingState
    /\ out_before = MissingOut
    /\ blk_reqs = << >>
    /\ tx_reqs = << >>
    /\ fail = NoFail
    /\ ended = "none"
    /\ bad = NoFail
    /\ save_count = [h \in Heights |-> 0]
    /\ HttpIdle

\* A fresh install: neither file exists.
Init ==
    /\ state_file = MissingState
    /\ InitRest
    /\ IsoIdle

\* Contents of a state file that carries no usable watermark.
CorruptStateFiles ==
    {[kind |-> c, last_height |-> 0] :
        c \in {"missing", "unparseable", "no_key", "null", "text", "not_dict"}}

\* The first run finds such a state file.
InitCorrupt ==
    /\ state_file \in CorruptStateFiles
    /\ InitRest
    /\ IsoIdle


\* --------------------------------------------------------- daily buckets
\* if date not in by_date: by_date[date] = {...zeros...}
WithBucket(bd, d) ==
    IF d \in DOMAIN bd THEN bd
    ELSE [x \in (DOMAIN bd) \cup {d} |-> IF x = d THEN EmptyBucket ELSE bd[x]]

\* by_date[date]["tx_total"] += len(hashes), done before any detail fetch
\* Variant: the transactions of a fetched block are not counted.
AddTxTotal_skip(bd, d, n) == bd

AddTxTotal(bd, d, n) == [bd EXCEPT ![d].tx_total = @ + n]

RECURSIVE CountIbc(_)
CountIbc(msgs) ==
    IF msgs = << >> THEN 0
    ELSE (IF StartsWith(Get(Head(msgs), "@type", << >>), IbcPrefix) THEN 1 ELSE 0)
         + CountIbc(Tail(msgs))

\* Variant: the cross-chain count and fee are raised once per cross-chain
\* message instead of once per transaction.
FoldTx_perMessage(bd, d, lcd_tx) ==
    LET fu == fee_uatom_from_lcd_tx(lcd_tx)
        n == CountIbc(GetOrEmpty(body_from_lcd_tx(lcd_tx), "messages"))
    IN [bd EXCEPT ![d].total_fee_uatom = @ + fu,
                  ![d].tx_ibc = @ + n,
                  ![d].ibc_fee_uatom = @ + n * fu]

\* The fold of one fetched transaction detail into its date's bucket.
FoldTx(bd, d, lcd_tx) ==
    LET fu == fee_uatom_from_lcd_tx(lcd_tx)
        b1 == [bd[d] EXCEPT !.total_fee_uatom = @ + fu]
        body == body_from_lcd_tx(lcd_tx)
        b2 == IF is_ibc_tx(body)
              THEN [b1 EXCEPT !.tx_ibc = @ + 1, !.ibc_fee_uatom = @ + fu]
              ELSE b1
    IN [bd EXCEPT ![d] = b2]

\* by_date[date]["lcd_errors"] += 1
AddLcdError(bd, d) == [bd EXCEPT ![d].lcd_errors = @ + 1]

\* --------------------------------------------------------- daily table
\* One row of df_new, built from a bucket.
NewRow(v) ==
    [tx_total          |-> v.tx_total,
     tx_ibc            |-> v.tx_ibc,
     tx_ibc_ratio_pct  |-> Pct(v.tx_ibc, v.tx_total),
     total_fee_uatom   |-> v.total_fee_uatom,
     ibc_fee_uatom     |-> v.ibc_fee_uatom,
     ibc_fee_share_pct |-> Pct(v.ibc_fee_uatom, v.total_fee_uatom),
     lcd_errors        |-> v.lcd_errors]

BuildRows(bd) == [d \in DOMAIN bd |-> NewRow(bd[d])]

\* groupby("date")[num_cols].sum() on two rows of one date: every numeric
\* column is summed, the two ratio columns included.
SumRows(a, b) ==
    [tx_total          |-> a.tx_total + b.tx_total,
     tx_ibc            |-> a.tx_ibc + b.tx_ibc,
     tx_ibc_ratio_pct  |-> RatAdd(a.tx_ibc_ratio_pct, b.tx_ibc_ratio_pct),
     total_fee_uatom   |-> a.total_fee_uatom + b.total_fee_uatom,
     ibc_fee_uatom     |-> a.ibc_fee_uatom + b.ibc_fee_uatom,
     ibc_fee_share_pct |-> RatAdd(a.ibc_fee_share_pct, b.ibc_fee_share_pct),
     lcd_errors        |-> a.lcd_errors + b.lcd_errors]

\* Variant: a date present on both sides keeps the new row only (the old
\* row is overwritten instead of summed).
GroupBySum_keepNew(old, new) ==
    [d \in (DOMAIN old) \cup (DOMAIN new) |->
        IF d \in DOMAIN new THEN new[d] ELSE old[d]]

GroupBySum(old, new) ==
    [d \in (DOMAIN old) \cup (DOMAIN new) |->
        IF d \in DOMAIN old /\ d \in DOMAIN new THEN SumRows(old[d], new[d])
        ELSE IF d \in DOMAIN old THEN old[d] ELSE new[d]]

\* Variant: the summed ratio columns are kept as groupby left them.
RecomputeRatios_stale(r) == r

\* The two df.apply(...) that overwrite the ratio columns after the sum.
RecomputeRatios(r) ==
    [r EXCEPT !.tx_ibc_ratio_pct  = Pct(r.tx_ibc, r.tx_total),
              !.ibc_fee_share_pct = Pct(r.ibc_fee_uatom, r.total_fee_uatom)]

MergeTables(old, new) ==
    LET df == GroupBySum(old, new)
    IN [d \in DOMAIN df |-> RecomputeRatios(df[d])]

\* ------------------------------------------------------------------ main()
\* The process is gone: its locals are discarded.
EndRun(how) ==
    /\ pc' = "idle"
    /\ ended' = how
    /\ by_date' = << >>
    /\ hashes' = << >>
    /\ k' = 0
    /\ height' = 0
    /\ last_ok' = 0
    /\ atom_price' = 0

\* rpc_status() answers L; load_state(); start and end are computed.
StartRun(L) ==
    /\ pc = "idle"
    /\ runs < MaxRuns
    /\ ~StateRaises(load_state(state_file))
    /\ runs' = runs + 1
    /\ latest' = L
    /\ start' = ScanStart(load_state(state_file), L)
    /\ end' = ScanEnd(L, start')
    /\ pc' = "price"
    /\ wm_before' = state_file
    /\ out_before' = outfile
    /\ blk_reqs' = << >>
    /\ tx_reqs' = << >>
    /\ fail' = NoFail
    /\ bad' = NoFail
    /\ ended' = "none"
    /\ UNCHANGED <<state_file, outfile, height, atom_price, by_date, hashes, k,
                   last_ok, save_count>>

\* rpc_status() raises: main() dies on its first line.
RpcStatusFail ==
    /\ pc = "idle"
    /\ runs < MaxRuns
    /\ runs' = runs + 1
    /\ wm_before' = state_file
    /\ out_before' = outfile
    /\ blk_reqs' = << >>
    /\ tx_reqs' = << >>
    /\ fail' = NoFail
    /\ bad' = NoFail
    /\ latest' = 0 /\ start' = 0 /\ end' = 0
    /\ EndRun("aborted")
    /\ UNCHANGED <<state_file, outfile, save_count>>

\* rpc_status() answers L, load_state() returns a value on which line 195 or
\* 196 raises: main() dies before the range is computed.
StartRunStateError(L) ==
    /\ pc = "idle"
    /\ runs < MaxRuns
    /\ StateRaises(load_state(state_file))
    /\ runs' = runs + 1
    /\ latest' = L
    /\ start' = 0 /\ end' = 0
    /\ wm_before' = state_file
    /\ out_before' = outfile
    /\ blk_reqs' = << >>
    /\ tx_reqs' = << >>
    /\ fail' = NoFail
    /\ bad' = NoFail
    /\ EndRun("aborted")
    /\ UNCHANGED <<state_file, outfile, save_count>>

\* get_atom_price_usd() answers p; by_date = {}, last_ok = None, loop entry.
GetPriceOk(p) ==
    /\ pc = "price"
    /\ atom_price' = p
    /\ by_date' = << >>
    /\ last_ok' = 0
    /\ height' = start
    /\ pc' = "block"
    /\ UNCHANGED <<state_file, outfile, runs, latest, start, end, hashes, k,
                   wm_before, out_before, blk_reqs, tx_reqs, fail, ended, bad,
                   save_count>>

\* Variant: a failed price lookup is replaced by price 0 and the scan begins.
GetPriceFail_default ==
    /\ pc = "price"
    /\ atom_price' = 0
    /\ by_date' = << >>
    /\ last_ok' = 0
    /\ height' = start
    /\ pc' = "block"
    /\ UNCHANGED <<state_file, outfile, runs, latest, start, end, hashes, k,
                   wm_before, out_before, blk_reqs, tx_reqs, fail, ended, bad,
                   save_count>>

\* get_atom_price_usd() raises: uncaught, the run is over.
GetPriceFail ==
    /\ pc = "price"
    /\ EndRun("aborted")
    /\ UNCHANGED <<state_file, outfile, runs, latest, start, end, wm_before,
                   out_before, blk_reqs, tx_reqs, fail, save_count, bad>>

\* rpc_block(height) answers: bucket created, tx_total raised, hashes computed.
RpcBlockOk ==
    /\ pc = "block"
    /\ height <= end
    /\ blk_reqs' = Append(blk_reqs, height)
    /\ LET b == Block(height)
       IN /\ hashes' = HashesOf(height)
          /\ by_date' = AddTxTotal(WithBucket(by_date, b.date), b.date,
                                   Len(HashesOf(height)))
    /\ k' = 1
    /\ pc' = "txs"
    /\ UNCHANGED <<state_file, outfile, runs, latest, start, end, height,
                   atom_price, last_ok, wm_before, out_before, tx_reqs, fail,
                   ended, bad, save_count>>

\* Variant: a failed block is skipped and the scan goes on (continue for break).
RpcBlockFail_skip ==
    /\ pc = "block"
    /\ height <= end
    /\ blk_reqs' = Append(blk_reqs, height)
    /\ fail' = [kind |-> "block", h |-> height, k |-> 0]
    /\ height' = height + 1
    /\ UNCHANGED <<state_file, outfile, pc, runs, latest, start, end,
                   atom_price, by_date, hashes, k, last_ok, wm_before,
                   out_before, tx_reqs, ended, bad, save_count>>

\* rpc_block(height) fails on every RPC (or the block is malformed): break.
RpcBlockFail ==
    /\ pc = "block"
    /\ height <= end
    /\ blk_reqs' = Append(blk_reqs, height)
    /\ fail' = [kind |-> "block", h |-> height, k |-> 0]
    /\ pc' = "merge"
    /\ UNCHANGED <<state_file, outfile, runs, latest, start, end, height,
                   atom_price, by_date, hashes, k, last_ok, wm_before,
                   out_before, tx_reqs, ended, bad, save_count>>

\* Variant: the loop is range(start, end), which leaves the last height out.
LoopExit_early ==
    /\ pc = "block"
    /\ height >= end
    /\ pc' = "merge"
    /\ UNCHANGED <<state_file, outfile, runs, latest, start, end, height,
                   atom_price, by_date, hashes, k, last_ok, wm_before,
                   out_before, blk_reqs, tx_reqs, fail, ended, bad, save_count>>

\* range(start, end + 1) is exhausted.
LoopExit ==
    /\ pc = "block"
    /\ height > end
    /\ pc' = "merge"
    /\ UNCHANGED <<state_file, outfile, runs, latest, start, end, height,
                   atom_price, by_date, hashes, k, last_ok, wm_before,
                   out_before, blk_reqs, tx_reqs, fail, ended, bad, save_count>>

\* lcd_get_tx_by_hash(hashes[k]) answers: the detail is folded.
LcdTxOk ==
    /\ pc = "txs"
    /\ k <= Len(hashes)
    /\ tx_reqs' = Append(tx_reqs, hashes[k])
    /\ by_date' = FoldTx(by_date, Block(height).date, LcdTx(hashes[k]))
    /\ k' = k + 1
    /\ UNCHANGED <<state_file, outfile, pc, runs, latest, start, end, height,
                   atom_price, hashes, last_ok, wm_before, out_before,
                   blk_reqs, fail, ended, bad, save_count>>

\* Variant: a failed detail is counted and skipped, the loop goes on.
LcdTxFail_skip ==
    /\ pc = "txs"
    /\ k <= Len(hashes)
    /\ tx_reqs' = Append(tx_reqs, hashes[k])
    /\ by_date' = AddLcdError(by_date, Block(height).date)
    /\ fail' = [kind |-> "tx", h |-> height, k |-> k]
    /\ k' = k + 1
    /\ UNCHANGED <<state_file, outfile, pc, runs, latest, start, end, height,
                   atom_price, hashes, last_ok, wm_before, out_before,
                   blk_reqs, ended, bad, save_count>>

\* lcd_get_tx_by_hash(hashes[k]) fails on every LCD: lcd_errors += 1,
\* hashes = None, break, and the outer loop breaks on hashes is None.
LcdTxFail ==
    /\ pc = "txs"
    /\ k <= Len(hashes)
    /\ tx_reqs' = Append(tx_reqs, hashes[k])
    /\ by_date' = AddLcdError(by_date, Block(height).date)
    /\ hashes' = NoHashes
    /\ fail' = [kind |-> "tx", h |-> height, k |-> k]
    /\ pc' = "merge"
    /\ UNCHANGED <<state_file, outfile, runs, latest, start, end, height,
                   atom_price, k, last_ok, wm_before, out_before, blk_reqs,
                   ended, bad, save_count>>

\* Variant: the height saved is the one before the height just completed.
SaveState_stale ==
    /\ pc = "txs"
    /\ k > Len(hashes)
    /\ state_file' = save_state(height - 1)
    /\ save_count' = [save_count EXCEPT ![height] = @ + 1]
    /\ last_ok' = height
    /\ height' = height + 1
    /\ pc' = "block"
    /\ UNCHANGED <<outfile, runs, latest, start, end, atom_price, by_date,
                   hashes, k, wm_before, out_before, blk_reqs, tx_reqs, fail,
                   ended, bad>>

\* Variant: save_state(height) as soon as the block is fetched, before the
\* details of its transactions.
SaveState_early ==
    /\ pc = "txs"
    /\ state_file' = save_state(height)
    /\ save_count' = [save_count EXCEPT ![height] = @ + 1]
    /\ last_ok' = height
    /\ height' = height + 1
    /\ pc' = "block"
    /\ UNCHANGED <<outfile, runs, latest, start, end, atom_price, by_date,
                   hashes, k, wm_before, out_before, blk_reqs, tx_reqs, fail,
                   ended, bad>>

\* The transaction loop ran to its end: save_state(height), last_ok = height.
SaveState ==
    /\ pc = "txs"
    /\ k > Len(hashes)
    /\ state_file' = save_state(height)
    /\ save_count' = [save_count EXCEPT ![height] = @ + 1]
    /\ last_ok' = height
    /\ height' = height + 1
    /\ pc' = "block"
    /\ UNCHANGED <<outfile, runs, latest, start, end, atom_price, by_date,
                   hashes, k, wm_before, out_before, blk_reqs, tx_reqs, fail,
                   ended, bad>>

\* Lines 256-291: df_new, merge with the existing OUTFILE, to_csv.
WriteTable ==
    /\ pc = "merge"
    /\ outfile.exists \/ DOMAIN by_date # {}
    /\ LET df_new == BuildRows(by_date)
           df == IF outfile.exists THEN MergeTables(outfile.rows, df_new)
                 ELSE df_new
       IN outfile' = [exists |-> TRUE, rows |-> df,
                      atom_price_usd_used |-> atom_price]
    /\ EndRun("written")
    /\ UNCHANGED <<state_file, runs, latest, start, end, wm_before,
                   out_before, blk_reqs, tx_reqs, fail, save_count, bad>>

\* No OUTFILE and no bucket: df is an empty frame without columns, and
\* df["total_fee_uatom"] raises KeyError before to_csv.
WriteTableKeyError ==
    /\ pc = "merge"
    /\ ~outfile.exists
    /\ DOMAIN by_date = {}
    /\ EndRun("aborted")
    /\ UNCHANGED <<state_file, outfile, runs, latest, start, end, wm_before,
                   out_before, blk_reqs, tx_reqs, fail, save_count, bad>>

\* The process is killed anywhere between two steps of a run.
Crash ==
    /\ pc # "idle"
    /\ EndRun("crashed")
    /\ UNCHANGED <<state_file, outfile, runs, latest, start, end, wm_before,
                   out_before, blk_reqs, tx_reqs, fail, save_count, bad>>

Next ==
    \/ \E L \in Heights : StartRun(L) /\ UNCHANGED <<http_vars, iso_vars>>
    \/ RpcStatusFail /\ UNCHANGED <<http_vars, iso_vars>>
    \/ \E p \in Prices : GetPriceOk(p) /\ UNCHANGED <<http_vars, iso_vars>>
    \/ GetPriceFail /\ UNCHANGED <<http_vars, iso_vars>>
    \/ RpcBlockOk /\ UNCHANGED <<http_vars, iso_vars>>
    \/ RpcBlockFail /\ UNCHANGED <<http_vars, iso_vars>>
    \/ LoopExit /\ UNCHANGED <<http_vars, iso_vars>>
    \/ LcdTxOk /\ UNCHANGED <<http_vars, iso_vars>>
    \/ LcdTxFail /\ UNCHANGED <<http_vars, iso_vars>>
    \/ SaveState /\ UNCHANGED <<http_vars, iso_vars>>
    \/ WriteTable /\ UNCHANGED <<http_vars, iso_vars>>
    \/ WriteTableKeyError /\ UNCHANGED <<http_vars, iso_vars>>
    \/ Crash /\ UNCHANGED <<http_vars, iso_vars>>

Spec == Init /\ [][Next]_vars

\* rpc_block(height) answers a block whose header time fromisoformat rejects
\* (or without header): the exception is raised inside the try of line 213.
RpcBlockMalformed ==
    /\ pc = "block"
    /\ height <= end
    /\ blk_reqs' = Append(blk_reqs, height)
    /\ fail' = [kind |-> "block", h |-> height, k |-> 0]
    /\ bad' = IF bad.kind = "none" THEN [kind |-> "block", h |-> height, k |-> 0]
              ELSE bad
    /\ pc' = "merge"
    /\ UNCHANGED <<state_file, outfile, runs, latest, start, end, height,
                   atom_price, by_date, hashes, k, last_ok, wm_before,
                   out_before, tx_reqs, ended, save_count>>

\* lcd_get_tx_by_hash(hashes[k]) answers a malformed detail: nothing raises,
\* fee_uatom_from_lcd_tx returns what is left and the loop goes on.
LcdTxMalformed(shape) ==
    /\ pc = "txs"
    /\ k <= Len(hashes)
    /\ tx_reqs' = Append(tx_reqs, hashes[k])
    /\ by_date' = FoldTx(by_date, Block(height).date,
                         Malformed(LcdTx(hashes[k]), shape))
    /\ bad' = IF bad.kind = "none" THEN [kind |-> "tx", h |-> height, k |-> k]
              ELSE bad
    /\ k' = k + 1
    /\ UNCHANGED <<state_file, outfile, pc, runs, latest, start, end, height,
                   atom_price, hashes, last_ok, wm_before, out_before,
                   blk_reqs, fail, ended, save_count>>

\* Runs whose endpoints may answer malformed data.
NextMal ==
    \/ Next
    \/ RpcBlockMalformed /\ UNCHANGED <<http_vars, iso_vars>>
    \/ \E shape \in MalformedShapes : LcdTxMalformed(shape) /\ UNCHANGED <<http_vars, iso_vars>>

SpecMal == Init /\ [][NextMal]_vars

\* Runs that may find a state file without a usable watermark.
NextCorrupt ==
    \/ Next
    \/ \E L \in Heights : StartRunStateError(L) /\ UNCHANGED <<http_vars, iso_vars>>

SpecCorrupt == InitCorrupt /\ [][NextCorrupt]_vars


\* ------------------------------------------------------------ http_get_any
\* base_urls, as positions in the list.
base_urls == 1..NumEndpoints

\* What requests.get / raise_for_status can raise.
RequestErrors == {"timeout", "http_error"}

\* str(e) of the exception r.json() raises on a body that is not JSON.
JsonError == "json_decode"

\* Variant: the same delay after every failed attempt.
Backoff_flat(i) == BACKOFF

\* time.sleep(BACKOFF * i) after the failure of attempt i.
Backoff(i) == BACKOFF * i

\* Variant: a call starts at the base that answered the call before.
HttpCall_sticky ==
    /\ h_pc \in {"idle", "done"}
    /\ h_calls < MaxCalls
    /\ h_calls' = h_calls + 1
    /\ h_prev' = h_result
    /\ h_errors' = << >>
    /\ h_base' = IF h_result.kind = "ok" THEN h_result.base ELSE 1
    /\ h_i' = 1
    /\ h_last_err' = "none"
    /\ h_result' = [kind |-> "none", base |-> 0]
    /\ h_log' = << >>
    /\ h_pc' = "req"

\* A new call: errors = [], first base, first attempt of request_with_retries.
HttpCall ==
    /\ h_pc \in {"idle", "done"}
    /\ h_calls < MaxCalls
    /\ h_calls' = h_calls + 1
    /\ h_prev' = h_result
    /\ h_errors' = << >>
    /\ h_base' = 1
    /\ h_i' = 1
    /\ h_last_err' = "none"
    /\ h_result' = [kind |-> "none", base |-> 0]
    /\ h_log' = << >>
    /\ h_pc' = "req"

\* except Exception as e: errors.append((base, str(e))); continue -- and the
\* RuntimeError after the loop when base was the last of the list.
Abandon(e) ==
    /\ h_errors' = Append(h_errors, <<h_base, e>>)
    /\ IF h_base < NumEndpoints
       THEN /\ h_base' = h_base + 1
            /\ h_i' = 1
            /\ h_last_err' = "none"
            /\ h_result' = h_result
            /\ h_pc' = "req"
       ELSE /\ h_result' = [kind |-> "error", base |-> 0]
            /\ UNCHANGED <<h_base, h_i, h_last_err>>
            /\ h_pc' = "done"

\* Attempt i on base answers with a good status and r.json() parses:
\* return r.json(), base.
HttpAnswerJson ==
    /\ h_pc = "req"
    /\ h_log' = Append(h_log, [base |-> h_base, i |-> h_i, out |-> "json", delay |-> 0])
    /\ h_result' = [kind |-> "ok", base |-> h_base]
    /\ h_pc' = "done"
    /\ UNCHANGED <<h_base, h_i, h_last_err, h_errors, h_calls, h_prev>>

\* Attempt i on base answers with a good status, request_with_retries returns
\* r, and r.json() raises inside http_get_any's try: the base is abandoned.
HttpAnswerNotJson ==
    /\ h_pc = "req"
    /\ h_log' = Append(h_log, [base |-> h_base, i |-> h_i, out |-> JsonError, delay |-> 0])
    /\ Abandon(JsonError)
    /\ UNCHANGED <<h_calls, h_prev>>

\* Variant: no retry, the base is given up on its first failed attempt.
HttpAttemptFail_noRetry(e) ==
    /\ h_pc = "req"
    /\ h_log' = Append(h_log, [base |-> h_base, i |-> h_i, out |-> e, delay |-> Backoff(h_i)])
    /\ Abandon(e)
    /\ UNCHANGED <<h_calls, h_prev>>

\* Attempt i on base raises e: last_err = e, sleep(BACKOFF * i); after the
\* last attempt request_with_retries raises last_err.
HttpAttemptFail(e) ==
    /\ h_pc = "req"
    /\ h_log' = Append(h_log, [base |-> h_base, i |-> h_i, out |-> e, delay |-> Backoff(h_i)])
    /\ IF h_i < MAX_RETRIES
       THEN /\ h_i' = h_i + 1
            /\ h_last_err' = e
            /\ UNCHANGED <<h_base, h_errors, h_result, h_pc>>
       ELSE Abandon(e)
    /\ UNCHANGED <<h_calls, h_prev>>

HttpNext ==
    \/ HttpCall /\ UNCHANGED <<run_vars, iso_vars>>
    \/ HttpAnswerJson /\ UNCHANGED <<run_vars, iso_vars>>
    \/ HttpAnswerNotJson /\ UNCHANGED <<run_vars, iso_vars>>
    \/ \E e \in RequestErrors : HttpAttemptFail(e) /\ UNCHANGED <<run_vars, iso_vars>>

SpecHttp == Init /\ [][HttpNext]_vars

\* ------------------------------------------------------------ normalize_iso
\* A timestamp is handed to normalize_iso.
InitIso ==
    /\ state_file = MissingState
    /\ InitRest
    /\ iso_pc = "in" /\ iso_in \in IsoInputs
    /\ iso_out = << >> /\ iso_again = << >>

IsoNormalize ==
    /\ iso_pc = "in"
    /\ iso_out' = normalize_iso(iso_in)
    /\ iso_pc' = "out"
    /\ UNCHANGED <<iso_in, iso_again>>

\* The result is handed to normalize_iso once more.
IsoAgain ==
    /\ iso_pc = "out"
    /\ iso_again' = normalize_iso(iso_out)
    /\ iso_pc' = "done"
    /\ UNCHANGED <<iso_in, iso_out>>

IsoNext ==
    \/ IsoNormalize /\ UNCHANGED <<run_vars, http_vars>>
    \/ IsoAgain /\ UNCHANGED <<run_vars, http_vars>>

SpecIso == InitIso /\ [][IsoNext]_vars


\* ======================================================================
\* Reference sums, computed from the chain alone
\* ======================================================================
\* Transaction t has at least one message whose type tag begins with the
\* five characters of the reserved prefix.
CrossChain(t) ==
    \E i \in 1..Len(t.types) :
        /\ Len(t.types[i]) >= 5
        /\ t.types[i][1] = "/" /\ t.types[i][2] = "i" /\ t.types[i][3] = "b"
        /\ t.types[i][4] = "c" /\ t.types[i][5] = "."

RECURSIVE FeeSum(_, _)
\* Sum of the fees of txs; of the cross-chain ones only when onlyIbc.
FeeSum(txs, onlyIbc) ==
    IF txs = << >> THEN 0
    ELSE (IF onlyIbc /\ ~CrossChain(Head(txs)) THEN 0 ELSE Head(txs).fee)
         + FeeSum(Tail(txs), onlyIbc)

\* What a completely fetched height adds to the bucket of its date.
Contribution(h) ==
    [tx_total        |-> Len(BlockTxs(h)),
     tx_ibc          |-> Cardinality({i \in 1..Len(BlockTxs(h)) : CrossChain(BlockTxs(h)[i])}),
     total_fee_uatom |-> FeeSum(BlockTxs(h), FALSE),
     ibc_fee_uatom   |-> FeeSum(BlockTxs(h), TRUE)]

Zero4 == [tx_total |-> 0, tx_ibc |-> 0, total_fee_uatom |-> 0, ibc_fee_uatom |-> 0]

Add4(a, b) ==
    [tx_total        |-> a.tx_total + b.tx_total,
     tx_ibc          |-> a.tx_ibc + b.tx_ibc,
     total_fee_uatom |-> a.total_fee_uatom + b.total_fee_uatom,
     ibc_fee_uatom   |-> a.ibc_fee_uatom + b.ibc_fee_uatom]

\* The counts and fees of a bucket or of a table row.
Additive(r) ==
    [tx_total        |-> r.tx_total,
     tx_ibc          |-> r.tx_ibc,
     total_fee_uatom |-> r.total_fee_uatom,
     ibc_fee_uatom   |-> r.ibc_fee_uatom]

RECURSIVE Completed(_, _)
\* The counts and fees the heights of S add to date d.
Completed(S, d) ==
    IF S = {} THEN Zero4
    ELSE LET h == CHOOSE x \in S : TRUE
             rest == Completed(S \ {h}, d)
         IN IF BlockDate(h) = d THEN Add4(rest, Contribution(h)) ELSE rest

\* The counts and fees of date d in a table or in by_date; zeros without a row.
AdditiveAt(rows, d) == IF d \in DOMAIN rows THEN Additive(rows[d]) ELSE Zero4

Geq4(a, b) ==
    /\ a.tx_total >= b.tx_total
    /\ a.tx_ibc >= b.tx_ibc
    /\ a.total_fee_uatom >= b.total_fee_uatom
    /\ a.ibc_fee_uatom >= b.ibc_fee_uatom

\* Heights for which save_state has been called, in any run.
SavedHeights == {h \in Heights : save_count[h] > 0}

\* The heights a run completed before the one at which it failed.
DoneBefore(h) == start..(h - 1)

AllDates == Dates \cup DOMAIN outfile.rows \cup DOMAIN by_date

\* ======================================================================
\* Claims
\* ======================================================================

\* C1 (as claimed; violated by the code): when the detail fetch of the k-th
\* transaction of block H fails, the bucket of H's date holds only the
\* heights completed before H, the table written at the end of that run
\* holds the earlier table plus those heights only, and the watermark is
\* below H.
C1_AtomicHeightCommit ==
    fail.kind = "tx" =>
        LET d == BlockDate(fail.h)
        IN /\ (pc = "merge" =>
                 AdditiveAt(by_date, d) = Completed(DoneBefore(fail.h), d))
           /\ (pc = "idle" /\ ended = "written" =>
                 AdditiveAt(outfile.rows, d)
                   = Add4(AdditiveAt(out_before.rows, d),
                          Completed(DoneBefore(fail.h), d)))
           /\ (state_file.kind = "ok" => state_file.last_height < fail.h)

\* C2 (as claimed; violated by the code): after the second of two runs, the
\* second resuming from the watermark the first persisted and meeting no
\* fetch failure, the table holds for every date exactly the counts and fees
\* of the heights completed by the two runs, each once.
C2_NoDoubleCount ==
    (runs = 2 /\ pc = "idle" /\ ended = "written" /\ fail.kind = "none"
       /\ wm_before.kind = "ok")
    => \A d \in AllDates :
          AdditiveAt(outfile.rows, d) = Completed(SavedHeights, d)

\* C3 (as claimed; violated by the code): in every state a crash leaves,
\* each height at or below the persisted watermark that was completed has
\* its counts and fees present in the persisted table.
C3_CrashWindow ==
    ended = "crashed" =>
        \A d \in AllDates :
            Geq4(AdditiveAt(outfile.rows, d), Completed(SavedHeights, d))

\* The hashes requested so far in this run, as a set.
Requested == {tx_reqs[i] : i \in 1..Len(tx_reqs)}

\* by_date holds, for every date, exactly the counts and fees of heights S.
BucketsHold(S) ==
    /\ \A d \in DOMAIN by_date : Additive(by_date[d]) = Completed(S, d)
    /\ \A h \in S : BlockDate(h) \in DOMAIN by_date

\* C4: every write of the watermark is save_state(H) for the height H in
\* progress, made after H's block request and the detail request of each of
\* H's transactions succeeded and with the buckets holding every height of
\* start..H in full; no fetch of the run has failed, and save_state had
\* never been called for H before. Conversely, once the last detail of H is
\* folded, the next step of the run (unless the process is killed) is that
\* write.
C4_SaveAfterFold ==
    [][/\ (state_file' # state_file =>
             /\ pc = "txs"
             /\ state_file' = [kind |-> "ok", last_height |-> height]
             /\ fail.kind = "none"
             /\ Len(blk_reqs) > 0 /\ blk_reqs[Len(blk_reqs)] = height
             /\ \A i \in 1..Len(BlockTxs(height)) : <<height, i>> \in Requested
             /\ BucketsHold(start..height)
             /\ save_count[height] = 0
             /\ save_count'[height] = 1
             /\ last_ok' = height)
       /\ (pc = "txs" /\ k > Len(hashes) /\ ended' # "crashed" =>
             state_file' = [kind |-> "ok", last_height |-> height])]_vars

\* C4 witness: the watermark was written for a height with two transactions.
C4_Witness ==
    /\ pc = "block"
    /\ last_ok > 0
    /\ Len(BlockTxs(last_ok)) = 2
    /\ state_file = [kind |-> "ok", last_height |-> last_ok]

\* C5: a run whose start is above the latest height requests no block and
\* no transaction detail, leaves the watermark as it found it, and leaves
\* the rows of the table (counts, fees, failure count, both ratios) as it
\* found them.
C5_IdempotentResume ==
    start > latest =>
        /\ blk_reqs = << >>
        /\ tx_reqs = << >>
        /\ state_file = wm_before
        /\ outfile.exists = out_before.exists
        /\ outfile.rows = out_before.rows

\* C5 witness: such a run rewrote an existing table (with another price).
C5_Witness ==
    /\ start > latest
    /\ pc = "idle" /\ ended = "written"
    /\ DOMAIN outfile.rows # {}
    /\ outfile.atom_price_usd_used # out_before.atom_price_usd_used

WatermarkBelow(h) ==
    IF h > start THEN [kind |-> "ok", last_height |-> h - 1] ELSE wm_before

\* C7: once the block request for H has failed, H is the last height
\* requested, no detail of H is requested, the buckets hold the heights
\* before H only (and no failure count), the table the run writes is the
\* earlier table plus these heights, and the watermark is H-1 if the run
\* completed a height, else what it was before the run.
C7_BlockFailureFatal ==
    fail.kind = "block" =>
        /\ blk_reqs[Len(blk_reqs)] = fail.h
        /\ \A i \in 1..Len(tx_reqs) : tx_reqs[i][1] < fail.h
        /\ (pc = "merge" =>
              /\ BucketsHold(DoneBefore(fail.h))
              /\ \A d \in DOMAIN by_date : by_date[d].lcd_errors = 0)
        /\ (ended = "written" =>
              \A d \in AllDates :
                 AdditiveAt(outfile.rows, d)
                   = Add4(AdditiveAt(out_before.rows, d),
                          Completed(DoneBefore(fail.h), d)))
        /\ state_file = WatermarkBelow(fail.h)

\* C7 witness: a run that completed a height, then failed on a block, and
\* wrote its table.
C7_Witness ==
    /\ fail.kind = "block"
    /\ fail.h > start
    /\ ended = "written"

\* What C8 states of the run in which a detail fetch failed: the failed
\* request is the last detail request, its height the last block request,
\* the details requested for H are exactly transactions 1..k in order, and
\* the watermark was not advanced to H.
TxFailureStops ==
    fail.kind = "tx" =>
        /\ tx_reqs[Len(tx_reqs)] = <<fail.h, fail.k>>
        /\ blk_reqs[Len(blk_reqs)] = fail.h
        /\ \A i \in 1..fail.k : tx_reqs[Len(tx_reqs) - fail.k + i] = <<fail.h, i>>
        /\ state_file = WatermarkBelow(fail.h)

\* C8 (as claimed; violated by the code): the above, and the next run
\* starts at H.
C8_Original ==
    [][/\ TxFailureStops
       /\ (fail.kind = "tx" /\ pc = "idle" /\ pc' = "price" => start' = fail.h)]_vars

\* C8 (amended): the above, and the next run starts at H when a watermark
\* is persisted, and at max(1, latest - BLOCK_BATCH) of its own latest
\* height when none is.
C8_TxFailureStops ==
    [][/\ TxFailureStops
       /\ (fail.kind = "tx" /\ pc = "idle" /\ pc' = "price" =>
             start' = IF state_file.kind = "ok" THEN fail.h
                      ELSE IF latest' - BLOCK_BATCH > 1
                           THEN latest' - BLOCK_BATCH ELSE 1)]_vars

\* C8 witness: the second transaction of a height failed in a run that had
\* a watermark, and the run is over.
C8_Witness ==
    /\ fail.kind = "tx"
    /\ fail.k = 2
    /\ state_file.kind = "ok"
    /\ pc = "idle"

\* ------------------------------------------------ http_get_any, one call
\* Positions in h_log of the requests sent to base b.
AttemptsOn(b) == {i \in 1..Len(h_log) : h_log[i].base = b}

\* Outcome of the last request sent to base b.
LastOut(b) ==
    h_log[CHOOSE i \in AttemptsOn(b) : \A j \in AttemptsOn(b) : j <= i].out

\* Base b received MAX_RETRIES requests and each of them raised.
FailedAll(b) ==
    /\ Cardinality(AttemptsOn(b)) = MAX_RETRIES
    /\ \A i \in AttemptsOn(b) : h_log[i].out \in RequestErrors

\* Base b answered with a good status and a body that is not JSON, after
\* fewer than MAX_RETRIES requests that raised.
BadBody(b) ==
    /\ AttemptsOn(b) # {}
    /\ Cardinality(AttemptsOn(b)) <= MAX_RETRIES
    /\ LastOut(b) = JsonError
    /\ Cardinality({i \in AttemptsOn(b) : h_log[i].out \in RequestErrors})
         = Cardinality(AttemptsOn(b)) - 1

\* Requests go to the first base first and move from a base to the next.
ListOrder ==
    /\ h_log # << >> => h_log[1].base = 1 /\ h_log[1].i = 1
    /\ \A n \in 1..(Len(h_log) - 1) :
          \/ h_log[n + 1].base = h_log[n].base /\ h_log[n + 1].i = h_log[n].i + 1
          \/ h_log[n + 1].base = h_log[n].base + 1 /\ h_log[n + 1].i = 1

\* The aggregated error names every base of the list, in order, with the
\* last failure of that base.
ErrorsListAll ==
    /\ Len(h_errors) = NumEndpoints
    /\ \A b \in base_urls : h_errors[b] = <<b, LastOut(b)>>

\* C9 (as claimed; violated by the code): a finished call tried the bases
\* in list order; when it returns, it returns the base of its last request,
\* which answered, and every earlier base failed all MAX_RETRIES attempts;
\* it fails exactly when every base failed all MAX_RETRIES attempts, and
\* the error then lists every base with its last failure.
C9_Original ==
    h_pc = "done" =>
        /\ ListOrder
        /\ (h_result.kind = "ok" =>
              /\ h_log[Len(h_log)].out = "json"
              /\ h_log[Len(h_log)].base = h_result.base
              /\ \A b \in 1..(h_result.base - 1) : FailedAll(b))
        /\ (h_result.kind = "error" <=> \A b \in base_urls : FailedAll(b))
        /\ (h_result.kind = "error" => ErrorsListAll)

\* C9 (amended): as claimed, except that a base is also given up, without
\* using the rest of its retry budget, when it answers with a body that is
\* not JSON: every base before the returned one either failed all
\* MAX_RETRIES attempts or answered such a body, and the call fails exactly
\* when every base of the list did one or the other.
C9_EndpointFallback ==
    h_pc = "done" =>
        /\ ListOrder
        /\ (h_result.kind = "ok" =>
              /\ h_log[Len(h_log)].out = "json"
              /\ h_log[Len(h_log)].base = h_result.base
              /\ \A b \in 1..(h_result.base - 1) : FailedAll(b) \/ BadBody(b))
        /\ (h_result.kind = "error" <=>
              \A b \in base_urls : FailedAll(b) \/ BadBody(b))
        /\ (h_result.kind = "error" => ErrorsListAll)

\* C9 witness: the first base failed all its attempts, the second answered
\* a body that is not JSON, and the call returned the third.
C9_Witness ==
    /\ h_pc = "done"
    /\ h_result = [kind |-> "ok", base |-> 3]
    /\ FailedAll(1)
    /\ BadBody(2)

\* ------------------------------------------------------- derived fields
\* q is the fraction a / b * 100, or 0 when b is 0.
IsPct(q, a, b) ==
    /\ q[2] > 0
    /\ IF b = 0 THEN q[1] = 0 ELSE q[1] * b = 100 * a * q[2]

\* C10: in every row of the persisted table both ratios are the ones of the
\* row's own totals.
C10_DerivedFields ==
    \A d \in DOMAIN outfile.rows :
        LET r == outfile.rows[d]
        IN /\ IsPct(r.tx_ibc_ratio_pct, r.tx_ibc, r.tx_total)
           /\ IsPct(r.ibc_fee_share_pct, r.ibc_fee_uatom, r.total_fee_uatom)

\* C10 witness: a run added transactions to a row that already had some
\* and a ratio above 0.
C10_Witness ==
    /\ pc = "idle" /\ ended = "written"
    /\ \E d \in DOMAIN out_before.rows :
          /\ out_before.rows[d].tx_ibc > 0
          /\ outfile.rows[d].tx_total > out_before.rows[d].tx_total
          /\ outfile.rows[d].tx_ibc_ratio_pct # out_before.rows[d].tx_ibc_ratio_pct

\* ------------------------------------------------------ classification
\* Number of messages of t whose type tag has the reserved prefix.
TaggedMessages(t) ==
    Cardinality({i \in 1..Len(t.types) :
                    Len(t.types[i]) >= 5 /\ SubSeq(t.types[i], 1, 5) = IbcPrefix})

\* C11: the step that folds a fetched transaction raises the cross-chain
\* count of its date by exactly 1 and the cross-chain fee by exactly its fee
\* when at least one of its messages carries the prefix "/ibc.", however
\* many do, and raises neither otherwise.
C11_CrossChainOnce ==
    [][pc = "txs" /\ pc' = "txs" /\ k' = k + 1 =>
          LET t == BlockTxs(height)[k]
              d == BlockDate(height)
          IN /\ by_date'[d].tx_ibc - by_date[d].tx_ibc
                  = (IF TaggedMessages(t) >= 1 THEN 1 ELSE 0)
             /\ by_date'[d].ibc_fee_uatom - by_date[d].ibc_fee_uatom
                  = (IF TaggedMessages(t) >= 1 THEN t.fee ELSE 0)]_vars

\* C11 witness: a transaction with two cross-chain messages and a fee has
\* just been folded.
C11_Witness ==
    /\ pc = "txs"
    /\ k > 1
    /\ TaggedMessages(BlockTxs(height)[k - 1]) = 2
    /\ BlockTxs(height)[k - 1].fee > 0

\* ---------------------------------------------------------------- merge
\* The five additive fields of date d in a table or in by_date.
FiveAt(rows, d) ==
    IF d \in DOMAIN rows
    THEN <<rows[d].tx_total, rows[d].tx_ibc, rows[d].total_fee_uatom,
           rows[d].ibc_fee_uatom, rows[d].lcd_errors>>
    ELSE <<0, 0, 0, 0, 0>>

\* C12: the step that writes the table leaves one row for each date of the
\* existing table or of the run's buckets and for no other date, and each
\* additive field of a row is the existing value plus the bucket's value, a
\* missing side counting as 0.
C12_Merge ==
    [][pc = "merge" /\ ended' = "written" =>
          /\ outfile'.exists
          /\ DOMAIN outfile'.rows = (DOMAIN outfile.rows) \cup (DOMAIN by_date)
          /\ \A d \in DOMAIN outfile'.rows : \A f \in 1..5 :
                FiveAt(outfile'.rows, d)[f]
                  = FiveAt(outfile.rows, d)[f] + FiveAt(by_date, d)[f]]_vars

\* C12 witness: a run wrote a table in which one existing date grew and
\* another existing date, none of whose heights was requested, is kept.
C12_Witness ==
    /\ pc = "idle" /\ ended = "written"
    /\ \E d1, d2 \in DOMAIN out_before.rows :
          /\ outfile.rows[d1].tx_total > out_before.rows[d1].tx_total
          /\ out_before.rows[d1].tx_total > 0
          /\ \A i \in 1..Len(blk_reqs) : BlockDate(blk_reqs[i]) # d2
          /\ out_before.rows[d2].tx_total > 0
          /\ FiveAt(outfile.rows, d2) = FiveAt(out_before.rows, d2)

\* ----------------------------------------------------- one block, folded
\* The run found watermark H-1 and no table, requested block H only, met no
\* failure and wrote its table.
FoldedOneBlock ==
    /\ pc = "idle" /\ ended = "written" /\ fail.kind = "none"
    /\ wm_before.kind = "ok"
    /\ ~out_before.exists
    /\ blk_reqs = <<wm_before.last_height + 1>>

\* C13: after such a run the table has the one row of H's date, with the
\* number of H's transactions, the sum of their fees, the number and the fee
\* sum of the cross-chain ones, and the watermark is H; for the block of two
\* transactions with fees 500 and 300, the first one cross-chain, the row is
\* count 2, cross-chain count 1, total fee 800, cross-chain fee 500.
C13_BlockFold ==
    FoldedOneBlock =>
        LET H == blk_reqs[1]
            d == BlockDate(H)
            txs == BlockTxs(H)
        IN /\ DOMAIN outfile.rows = {d}
           /\ outfile.rows[d].tx_total = Len(txs)
           /\ outfile.rows[d].total_fee_uatom = FeeSum(txs, FALSE)
           /\ outfile.rows[d].tx_ibc
                = Cardinality({i \in 1..Len(txs) : TaggedMessages(txs[i]) >= 1})
           /\ outfile.rows[d].ibc_fee_uatom = FeeSum(txs, TRUE)
           /\ state_file = [kind |-> "ok", last_height |-> H]
           /\ (H % 3 = 1 =>
                 FiveAt(outfile.rows, d) = <<2, 1, 800, 500, 0>>)

\* C13 witness: the run folded the block with fees 500 and 300.
C13_Witness ==
    /\ FoldedOneBlock
    /\ Len(BlockTxs(blk_reqs[1])) = 2
    /\ outfile.rows[BlockDate(blk_reqs[1])].total_fee_uatom = 800

\* ------------------------------------------------------------ empty block
\* The run found watermark W and a table, requested block W+1 only, which
\* has no transaction and whose date has a row, met no failure and wrote.
ScannedEmptyBlock ==
    /\ pc = "idle" /\ ended = "written" /\ fail.kind = "none"
    /\ wm_before.kind = "ok"
    /\ out_before.exists
    /\ blk_reqs = <<wm_before.last_height + 1>>
    /\ BlockTxs(blk_reqs[1]) = << >>
    /\ BlockDate(blk_reqs[1]) \in DOMAIN out_before.rows

\* C14: after such a run the row of that date is what it was (counts, fees,
\* failure count and both ratios), the table was written, and the watermark
\* is W+1.
C14_EmptyBlock ==
    ScannedEmptyBlock =>
        LET d == BlockDate(blk_reqs[1])
        IN /\ outfile.exists
           /\ d \in DOMAIN outfile.rows
           /\ outfile.rows[d] = out_before.rows[d]
           /\ state_file = [kind |-> "ok", last_height |-> wm_before.last_height + 1]

\* C14 witness: the row had transactions and a ratio above 0.
C14_Witness ==
    /\ ScannedEmptyBlock
    /\ out_before.rows[BlockDate(blk_reqs[1])].tx_total > 0
    /\ out_before.rows[BlockDate(blk_reqs[1])].tx_ibc_ratio_pct[1] > 0

\* ------------------------------------------------- state file corruption
\* C15 (as claimed; violated by the code): a run whose status request
\* answered and whose state file is missing, unparseable, or parseable
\* without a usable integer last_height, goes on as with no watermark: it
\* does not die and its start is max(1, latest - BLOCK_BATCH).
C15_CorruptStateFallback ==
    [][pc = "idle" /\ runs' = runs + 1 /\ latest' >= 1
         /\ state_file.kind # "ok" =>
          /\ pc' = "price"
          /\ start' = (IF latest' - BLOCK_BATCH > 1 THEN latest' - BLOCK_BATCH
                       ELSE 1)]_vars

\* ---------------------------------------------------- malformed answers
\* C16 (as claimed; violated by the code): once a run has received a
\* malformed block or transaction detail at height h, it has stopped there:
\* the scan is over, nothing was requested after the malformed answer, and
\* the watermark is below h.
C16_NoSilentSwallowing ==
    bad.kind # "none" =>
        /\ pc \in {"merge", "idle"}
        /\ blk_reqs[Len(blk_reqs)] = bad.h
        /\ bad.kind = "tx" => tx_reqs[Len(tx_reqs)] = <<bad.h, bad.k>>
        /\ state_file.kind = "ok" => state_file.last_height < bad.h

\* --------------------------------------------------------- clean full run
\* A run over a non-empty range is over, was not killed, and no block fetch
\* and no detail fetch of it failed.
CleanRunEnded ==
    /\ pc = "idle" /\ ended \in {"written", "aborted"}
    /\ fail.kind = "none"
    /\ latest >= 1 /\ start >= 1 /\ start <= end

\* The watermark is end, the table is written and holds the table found plus
\* the contribution of every height of start..end.
CleanResult ==
    /\ ended = "written"
    /\ state_file = save_state(end)
    /\ outfile.exists
    /\ \A d \in AllDates :
          AdditiveAt(outfile.rows, d)
            = Add4(AdditiveAt(out_before.rows, d), Completed(start..end, d))

ScanEntered == pc = "block" /\ blk_reqs = << >> /\ start <= end

RECURSIVE StepsFor(_, _)
\* Steps the loop takes at most for the heights a..b: one block request, one
\* detail request per transaction, one save_state.
StepsFor(a, b) ==
    IF a > b THEN 0 ELSE Len(BlockTxs(a)) + 2 + StepsFor(a + 1, b)

\* An upper bound of the number of steps left to the run in progress.
StepsLeft ==
    CASE pc = "idle"  -> 0
      [] pc = "merge" -> 1
      [] pc = "block" -> 2 + StepsFor(height, end)
      [] pc = "txs"   -> 2 + StepsFor(height + 1, end) + (Len(hashes) - k + 2)
      [] pc = "price" -> 3 + StepsFor(start, end)

C18_WatermarkForward ==
    [][save_count' # save_count =>
          \E h \in Heights :
             /\ save_count' = [save_count EXCEPT ![h] = 1]
             /\ save_count[h] = 0
             /\ state_file' = [kind |-> "ok", last_height |-> h]
             /\ state_file.kind = "ok" => h = state_file.last_height + 1
             /\ \A a, b \in SavedHeights \cup {h} :
                   \A x \in a..b : x \in SavedHeights \cup {h}]_vars

\* C18 witness: a second run resumed from the watermark of the first and has
\* written the watermark itself, three heights being completed in all.
C18_Witness ==
    /\ runs >= 2
    /\ wm_before.kind = "ok"
    /\ state_file.kind = "ok"
    /\ state_file.last_height > wm_before.last_height
    /\ Cardinality(SavedHeights) >= 3

\* ------------------------------------------------------- retry schedule
\* The requests of the call sent to base b up to the n-th request.
AttemptsUpTo(b, n) == {j \in 1..n : h_log[j].base = b}

\* C19: within one call every base receives at most MAX_RETRIES requests,
\* the i-th failed attempt on a base is followed by a delay of BACKOFF * i
\* (a request that answers by no delay), and the call has sent at most
\* NumEndpoints * MAX_RETRIES requests, being over once it has sent that many.
C19_BoundedRetry ==
    /\ \A b \in base_urls : Cardinality(AttemptsOn(b)) <= MAX_RETRIES
    /\ \A n \in 1..Len(h_log) :
          LET i == Cardinality(AttemptsUpTo(h_log[n].base, n))
          IN /\ h_log[n].i = i
             /\ h_log[n].out \in RequestErrors => h_log[n].delay = BACKOFF * i
             /\ h_log[n].out \notin RequestErrors => h_log[n].delay = 0
    /\ Len(h_log) <= NumEndpoints * MAX_RETRIES
    /\ Len(h_log) = NumEndpoints * MAX_RETRIES => h_pc = "done"
    /\ h_pc = "done" => h_result.kind \in {"ok", "error"}

\* C19 witness: a call used its whole budget, every attempt on every base
\* failed, with delays BACKOFF, 2 * BACKOFF and 3 * BACKOFF on each base.
C19_Witness ==
    /\ h_pc = "done" /\ h_result.kind = "error"
    /\ Len(h_log) = NumEndpoints * MAX_RETRIES
    /\ \A b \in base_urls :
          \A i \in 1..MAX_RETRIES :
             \E n \in 1..Len(h_log) :
                /\ h_log[n].base = b /\ h_log[n].i = i
                /\ h_log[n].out \in RequestErrors
                /\ h_log[n].delay = BACKOFF * i

\* ------------------------------------------------ no endpoint health memory
\* Where a call stands after a request sent as attempt i to base b had
\* outcome out, when the call goes on.
NextPosition(b, i, out) ==
    IF out \in RequestErrors /\ i < MAX_RETRIES THEN <<b, i + 1>> ELSE <<b + 1, 1>>

\* C20: whatever the outcome of the earlier calls, a call starts at the first
\* base with its first attempt and an empty error list; each request goes to
\* the position the call stands at, and the position after a request is
\* given by the position before it and the outcome of that request alone.
C20_NoHealthMemory ==
    [][/\ h_calls' = h_calls + 1 =>
            /\ h_pc' = "req" /\ h_log' = << >> /\ h_errors' = << >>
            /\ <<h_base', h_i'>> = <<1, 1>>
       /\ Len(h_log') = Len(h_log) + 1 =>
            LET r == h_log'[Len(h_log')]
            IN /\ r.base = h_base /\ r.i = h_i
               /\ Len(h_log') = 1 => r.base = 1 /\ r.i = 1
               /\ h_pc' = "req" =>
                     <<h_base', h_i'>> = NextPosition(h_base, h_i, r.out)
               /\ h_pc' = "done" =>
                     \/ r.out = "json"
                     \/ NextPosition(h_base, h_i, r.out)[1] > NumEndpoints]_vars

\* C20 witness: the call before was answered by the last base after the
\* earlier ones failed, and the first request of this call went to base 1.
C20_Witness ==
    /\ h_calls = 2
    /\ h_prev = [kind |-> "ok", base |-> NumEndpoints]
    /\ Len(h_log) = 1
    /\ h_log[1].base = 1 /\ h_log[1].i = 1

\* ------------------------------------------------ timestamp normalization
\* C21: for a timestamp made of a date-time, a dot, a fraction of one or
\* more digits and then Z or an offset, normalize_iso returns the date-time,
\* a dot, the fraction padded with zeros or cut to exactly 6 digits, and the
\* offset, +00:00 standing for Z; normalizing the result again changes
\* nothing.
C21_NormalizeIso ==
    iso_pc = "done" =>
        \A f \in FracTexts(MaxFrac) : \A suf \in IsoSuffixes :
            LET b == <<"T", "0", "7">>
                six == [i \in 1..6 |-> IF i <= Len(f) THEN f[i] ELSE "0"]
            IN f # << >> /\ suf # << >> /\ iso_in = b \o <<".">> \o f \o suf =>
                 /\ iso_out = b \o <<".">> \o six
                                \o (IF suf = <<"Z">> THEN UtcOffset ELSE suf)
                 /\ iso_again = iso_out

\* C21 witness: a fraction of 7 digits ending in Z was cut to 6 digits, and
\* normalized once more.
C21_Witness ==
    /\ iso_pc = "done"
    /\ iso_in = <<"T", "0", "7", ".", "1", "0", "1", "1", "0", "0", "1", "Z">>
    /\ iso_out = <<"T", "0", "7", ".", "1", "0", "1", "1", "0", "0",
                   "+", "0", "0", ":", "0", "0">>

\* ------------------------------------------------- cross-chain within total
\* Cross-chain count and fee are within the total count and fee.
Within(r) ==
    /\ 0 <= r.tx_ibc /\ r.tx_ibc <= r.tx_total
    /\ 0 <= r.ibc_fee_uatom /\ r.ibc_fee_uatom <= r.total_fee_uatom

\* A ratio between 0 and 100.
InPercentRange(q) == q[2] > 0 /\ 0 <= q[1] /\ q[1] <= 100 * q[2]

\* C22: at every point of every run, failed or not, each bucket and each row
\* of the table has its cross-chain count within its transaction count and
\* its cross-chain fee within its total fee, and both ratios of each row are
\* between 0 and 100.
C22_IbcWithinTotals ==
    /\ \A d \in DOMAIN by_date : Within(by_date[d])
    /\ \A d \in DOMAIN outfile.rows :
          /\ Within(outfile.rows[d])
          /\ InPercentRange(outfile.rows[d].tx_ibc_ratio_pct)
          /\ InPercentRange(outfile.rows[d].ibc_fee_share_pct)

\* C22 witness: a run that stopped on a failed detail fetch, after folding a
\* cross-chain transaction, wrote a row already present in the table.
C22_Witness ==
    /\ pc = "idle" /\ ended = "written" /\ fail.kind = "tx" /\ fail.k > 1
    /\ LET d == BlockDate(fail.h)
       IN /\ d \in DOMAIN out_before.rows
          /\ outfile.rows[d].tx_ibc > out_before.rows[d].tx_ibc
          /\ outfile.rows[d].tx_ibc < outfile.rows[d].tx_total
          /\ outfile.rows[d].ibc_fee_uatom > 0

\* ------------------------------------------------------------ price lookup
\* C23: the price lookup comes after the range is computed and before any
\* request for a block or a detail; a block is requested only with a price
\* in hand; a run leaves the lookup either with the price answered, entering
\* the scan, or over, and when the lookup fails the run is over with no
\* request issued, and the state file and the table as the run found them.
C23_PriceLookupAbort ==
    [][/\ pc' = "price" =>
            /\ latest' >= 1 /\ start' >= 1
            /\ end' = (IF latest' < start' + BLOCK_BATCH THEN latest'
                       ELSE start' + BLOCK_BATCH)
            /\ blk_reqs' = << >> /\ tx_reqs' = << >>
       /\ blk_reqs' # blk_reqs /\ blk_reqs' # << >> => atom_price \in Prices
       /\ pc = "price" /\ pc' # "price" =>
            \/ pc' = "block" /\ atom_price' \in Prices
            \/ /\ pc' = "idle" /\ ended' \in {"aborted", "crashed"}
               /\ blk_reqs' = << >> /\ tx_reqs' = << >>
               /\ state_file' = state_file /\ state_file' = wm_before'
               /\ outfile' = outfile /\ outfile' = out_before'
               /\ save_count' = save_count]_vars

\* C23 witness: a run that found a watermark and a table, over a range that
\* is not empty, ended on the failed price lookup.
C23_Witness ==
    /\ pc = "idle" /\ ended = "aborted"
    /\ latest >= 1 /\ start <= end
    /\ blk_reqs = << >>
    /\ wm_before.kind = "ok" /\ out_before.exists
    /\ state_file = wm_before /\ outfile = out_before

=============================================================================
